---- MODULE Spec2Model ----
(***************************************************************************)
(* A model of autom's agent core (src/autom/bot.py): the shell executor,   *)
(* the result formatter and the conversation loop of AutomBot.             *)
(*                                                                         *)
(* Text is modelled line by line.  A string is the non-empty sequence of   *)
(* its lines (the pieces between "\n"); a line is its leading indentation  *)
(* (a number of spaces) and the text that follows it.  A line whose text   *)
(* is "" holds only whitespace.  The empty string is the single line       *)
(* Line(0, "").  Trailing whitespace of a non-blank line is not kept.      *)
(***************************************************************************)
EXTENDS Integers, Sequences, FiniteSets, TLC

VARIABLES
    prompts,          \* run_conversation's argument: the prompts, in order
    max_turns,        \* AutomBot.max_turns
    conversation,     \* the local list `conversation`
    pc,               \* where run_conversation is
    promptIdx,        \* how many prompts the outer for loop has taken
    turn,             \* how many iterations of the inner for loop have started
    response,         \* response.output of the last model call
    itemIdx,          \* position of the item loop in response.output
    tool_messages,    \* the local list `tool_messages`
    printed_output,   \* the local flag `printed_output`
    error,            \* the exception that left run_conversation, or "none"
    printed,          \* what print() has written, in order
    calls,            \* model calls issued for the current prompt
    shellRuns,        \* subprocess.run calls made for the current prompt
    modelInput,       \* the input= argument of the last model call
    mark,             \* Len(conversation) when the last model call was issued
    budget,           \* output items the remote model may still emit in this run
    toolEveryCall,    \* every response for the current prompt held a run_shell tool call
    printMark,        \* Len(printed) when the last model call was issued
    shellLog,         \* the commands given to subprocess.run since the last model call
    shCommand,        \* ShellExecutor.run's argument (executor/formatter runs)
    shProc,           \* what the command's process does
    shState,          \* "start", "returned", "raised", "formatted"
    shResult,         \* what ShellExecutor.run returned or raised
    shFormatted       \* what to_tool_message returned

loopVars == <<prompts, max_turns, conversation, pc, promptIdx, turn, response,
              itemIdx, tool_messages, printed_output, error, printed, calls,
              shellRuns, modelInput, mark, budget, toolEveryCall, printMark,
              shellLog>>
shellVars == <<shCommand, shProc, shState, shResult, shFormatted>>
vars == <<loopVars, shellVars>>

(***************************************************************************)
(* Bounds of the model.                                                    *)
(***************************************************************************)
MaxPrompts == 2
MaxTurns == 2
MaxModelItems == 3

(***************************************************************************)
(* Program constants.                                                      *)
(***************************************************************************)
DefaultShellTimeout == 30
TemplateIndent == 12

(***************************************************************************)
(* Text.                                                                   *)
(***************************************************************************)
Line(i, t) == [indent |-> i, text |-> t]
EmptyText == <<Line(0, "")>>
OneLine(t) == <<Line(0, t)>>
None == "<None>"

MinOf(S) == CHOOSE x \in S : \A y \in S : x <= y
MaxOf(S) == CHOOSE x \in S : \A y \in S : x >= y

NonBlank(lines) == {k \in 1..Len(lines) : lines[k].text # ""}

\* str.strip(): leading and trailing whitespace (blank lines, the first line's
\* indentation) goes.
Strip(lines) ==
    IF NonBlank(lines) = {} THEN EmptyText
    ELSE LET first == MinOf(NonBlank(lines))
             last == MaxOf(NonBlank(lines))
             kept == SubSeq(lines, first, last)
         IN [kept EXCEPT ![1] = Line(0, kept[1].text)]

\* textwrap.dedent(): whitespace-only lines become empty, and the leading
\* whitespace common to all the other lines is removed from each of them.
Dedent(lines) ==
    LET margin == IF NonBlank(lines) = {} THEN 0
                  ELSE MinOf({lines[k].indent : k \in NonBlank(lines)})
    IN [k \in 1..Len(lines) |->
            IF lines[k].text = "" THEN Line(0, "")
            ELSE Line(lines[k].indent - margin, lines[k].text)]

\* a formatter without the placeholder
OrEmpty_NoPlaceholder(s) == s

\* `s or '<empty>'`: only the empty string is false.
OrEmpty(s) == IF s = EmptyText THEN OneLine("<empty>") ELSE s

\* ShellResult.to_tool_message
to_tool_message(r) ==
    Strip(Dedent(
        <<Line(0, ""),
          Line(TemplateIndent, "Command: " \o r.command),
          Line(TemplateIndent, "Exit code: " \o ToString(r.returncode)),
          Line(TemplateIndent, "Stdout:")>>
        \o OrEmpty(r.stdout)
        \o <<Line(TemplateIndent, "Stderr:")>>
        \o OrEmpty(r.stderr)
        \o <<Line(TemplateIndent, "")>>))

(***************************************************************************)
(* The shell executor.  A process is what the command does when run: how   *)
(* long it takes, its exit status and what it writes.                      *)
(***************************************************************************)
Proc(e, rc, out, err) == [elapsed |-> e, returncode |-> rc, stdout |-> out, stderr |-> err]

\* an executor that treats a nonzero exit status as a failure (check=True)
ShellExecutor_run_CheckTrue(command, proc, timeout) ==
    IF proc.elapsed > timeout
    THEN [kind |-> "raised", exception |-> "TimeoutExpired"]
    ELSE IF proc.returncode # 0
    THEN [kind |-> "raised", exception |-> "CalledProcessError"]
    ELSE [kind |-> "ShellResult",
          command |-> command,
          returncode |-> proc.returncode,
          stdout |-> Strip(proc.stdout),
          stderr |-> Strip(proc.stderr)]

\* an executor that turns a timeout into a result with an exit code of its own
ShellExecutor_run_FabricatesCode(command, proc, timeout) ==
    [kind |-> "ShellResult",
     command |-> command,
     returncode |-> IF proc.elapsed > timeout THEN 124 ELSE proc.returncode,
     stdout |-> Strip(proc.stdout),
     stderr |-> Strip(proc.stderr)]

\* ShellExecutor.run: subprocess.run raises TimeoutExpired when the command
\* outlives the timeout; otherwise a ShellResult with both streams stripped.
ShellExecutor_run(command, proc, timeout) ==
    IF proc.elapsed > timeout
    THEN [kind |-> "raised", exception |-> "TimeoutExpired"]
    ELSE [kind |-> "ShellResult",
          command |-> command,
          returncode |-> proc.returncode,
          stdout |-> Strip(proc.stdout),
          stderr |-> Strip(proc.stderr)]

(***************************************************************************)
(* What the remote model may send back.  An output item is a dictionary;   *)
(* a field the item does not carry is absent from the record.              *)
(***************************************************************************)
Part(ty, t) == [type |-> ty, text |-> t]

ArgsEcho == "{\"command\": \"echo hi\"}"
ArgsFalse == "{\"command\": \"false\"}"
ArgsSleep == "{\"command\": \"sleep 60\"}"
ArgsNoCommand == "{}"
ArgsBadJson == "{not json"

MsgText == [type |-> "message", role |-> "assistant",
            content |-> <<Part("output_text", OneLine("done"))>>]
MsgEmpty == [type |-> "message", role |-> "assistant", content |-> <<>>]
CallEcho == [type |-> "tool_call", id |-> "call_1",
             function |-> [name |-> "run_shell", arguments |-> ArgsEcho]]
CallFalse == [type |-> "tool_call",
              function |-> [name |-> "run_shell", arguments |-> ArgsFalse]]
CallSleep == [type |-> "tool_call", id |-> "call_2",
              function |-> [name |-> "run_shell", arguments |-> ArgsSleep]]
CallNoCommand == [type |-> "tool_call", id |-> "call_3",
                  function |-> [name |-> "run_shell"]]
CallBadJson == [type |-> "tool_call", id |-> "call_4",
                function |-> [name |-> "run_shell", arguments |-> ArgsBadJson]]
CallOther == [type |-> "tool_call", id |-> "call_5",
              function |-> [name |-> "read_file", arguments |-> ArgsNoCommand]]
CallNoFunction == [type |-> "tool_call", id |-> "call_6"]
CallByToolCallId == [type |-> "tool_call", tool_call_id |-> "call_7",
                     function |-> [name |-> "run_shell", arguments |-> ArgsEcho]]
Unknown == [type |-> "reasoning"]

Items == {MsgText, MsgEmpty, CallEcho, CallFalse, CallSleep, CallNoCommand,
          CallBadJson, CallOther, CallNoFunction, CallByToolCallId, Unknown}

ResponsesUpTo(n) == UNION {[1..k -> Items] : k \in 0..n}

\* What a command's process does on this machine.
World(command) ==
    CASE command = "echo hi" ->
            {Proc(1, 0, <<Line(0, "hi"), Line(0, "")>>, EmptyText)}
      [] command = "false" ->
            {Proc(1, 1, EmptyText, EmptyText)}
      [] OTHER ->
            {Proc(60, 0, EmptyText, EmptyText)}

(***************************************************************************)
(* AutomBot.                                                               *)
(***************************************************************************)
SystemPrompt == OneLine("You are Autom, an assistant that can solve tasks by running shell commands. Use shell responsibly and summarize the results for the user.")

TextMessage(role, text) ==
    [role |-> role, content |-> <<[type |-> "text", text |-> text]>>]

\* a message list with the system message put last
_build_messages_SystemLast(conv) == conv \o <<TextMessage("system", SystemPrompt)>>

\* AutomBot._build_messages
_build_messages(conv) == <<TextMessage("system", SystemPrompt)>> \o conv

\* AutomBot._get_value on a dictionary
_get_value(obj, name, default) ==
    IF name \in DOMAIN obj THEN obj[name] ELSE default

\* Python truth of a string-or-None value
Falsy(v) == v = None \/ v = ""

\* json.loads on the argument strings of the model
json_loads(s) ==
    CASE s = ArgsEcho -> [ok |-> TRUE, value |-> [command |-> "echo hi"]]
      [] s = ArgsFalse -> [ok |-> TRUE, value |-> [command |-> "false"]]
      [] s = ArgsSleep -> [ok |-> TRUE, value |-> [command |-> "sleep 60"]]
      [] s = ArgsNoCommand -> [ok |-> TRUE, value |-> <<>>]
      [] OTHER -> [ok |-> FALSE, value |-> <<>>]

Raised(exc, ran) == [kind |-> "raised", exception |-> exc, ran |-> ran]

\* a tool message that forgets the call identifier
ToolMessage_NoId(call_id, text) ==
    [role |-> "tool", name |-> "run_shell",
     content |-> <<[type |-> "text", text |-> text]>>]

ToolMessage(call_id, text) ==
    LET message == [role |-> "tool", name |-> "run_shell",
                    content |-> <<[type |-> "text", text |-> text]>>]
    IN IF Falsy(call_id) THEN message
       ELSE [k \in DOMAIN message \cup {"tool_call_id"} |->
                IF k = "tool_call_id" THEN call_id ELSE message[k]]

\* AutomBot._handle_tool_call, proc being what the command's process does:
\* the message to append, or the exception raised (ran: subprocess.run was called).
_handle_tool_call(call_id, arguments, proc) ==
    LET payload == json_loads(arguments)
    IN IF ~payload.ok THEN Raised("JSONDecodeError", FALSE)
       ELSE IF "command" \notin DOMAIN payload.value THEN Raised("KeyError", FALSE)
       ELSE LET command == payload.value.command
                shell_result == ShellExecutor_run(command, proc, DefaultShellTimeout)
            IN IF shell_result.kind = "raised"
               THEN Raised(shell_result.exception, TRUE)
               ELSE [kind |-> "message", ran |-> TRUE,
                     message |-> ToolMessage(call_id, to_tool_message(shell_result))]

\* payload["command"] of arguments that carry one
CommandOf(arguments) == json_loads(arguments).value.command

\* The processes the shell may start for these arguments.
ProcsFor(arguments) ==
    LET payload == json_loads(arguments)
    IN IF payload.ok /\ "command" \in DOMAIN payload.value
       THEN World(payload.value.command)
       ELSE {Proc(0, 0, EmptyText, EmptyText)}

\* The text of a plain message item
JoinTexts(texts) ==
    IF texts = <<>> THEN EmptyText
    ELSE LET RECURSIVE Join(_)
             Join(k) == IF k = 1 THEN texts[1] ELSE Join(k - 1) \o texts[k]
         IN Join(Len(texts))

MessageText(item) ==
    LET content_parts == _get_value(item, "content", <<>>)
        kept == SelectSeq(content_parts,
                    LAMBDA part : _get_value(part, "type", None) \in {"output_text", "text"})
    IN Strip(JoinTexts([k \in 1..Len(kept) |-> _get_value(kept[k], "text", EmptyText)]))

ItemType(item) == _get_value(item, "type", None)

FunctionName(item) ==
    IF "function" \in DOMAIN item THEN _get_value(item.function, "name", None) ELSE None

\* a dispatch that does not look at the function's name
IsRunShell_AnyFunction(item) == ItemType(item) = "tool_call" /\ "function" \in DOMAIN item

IsRunShell(item) == ItemType(item) = "tool_call" /\ FunctionName(item) = "run_shell"

\* an identifier read from `id` alone
CallId_IdOnly(item) == _get_value(item, "id", "")

CallId(item) ==
    IF ~Falsy(_get_value(item, "id", None)) THEN item.id
    ELSE _get_value(item, "tool_call_id", "")

Arguments(item) ==
    LET given == _get_value(item.function, "arguments", ArgsNoCommand)
    IN IF Falsy(given) THEN ArgsNoCommand ELSE given

\* a role fixed by the loop instead of read from the item
MessageRole_User(item) == "user"

\* self._get_value(item, "role", "assistant")
MessageRole(item) == _get_value(item, "role", "assistant")

\* a loop that always reads the first prompt
NextUserInput_First(ps, taken) == ps[1]

\* the value `for user_input in prompts` binds after `taken` prompts
NextUserInput(ps, taken) == ps[taken + 1]

\* a conversation started afresh for each prompt
WithUserMessage_Fresh(conv, text) == <<TextMessage("user", text)>>

\* conversation.append({"role": "user", ...})
WithUserMessage(conv, text) == Append(conv, TextMessage("user", text))

\* a model call that is tried again after it failed
AfterModelError_Retry(t) == "for_turns"

\* where run_conversation is after responses.create raised in iteration t:
\* nothing catches the exception
AfterModelError(t) == "raised"

\* a loop that runs once too often
MoreTurns_OffByOne(t, m) == t <= m

\* range(self.max_turns) has another value
MoreTurns(t, m) == t < m

NoResponse == OneLine("(No response from model)")

PromptText(i) == OneLine("prompt " \o ToString(i))

IdleResult == [kind |-> "none"]

ShellIdle ==
    /\ shCommand = ""
    /\ shProc = Proc(0, 0, EmptyText, EmptyText)
    /\ shState = "idle"
    /\ shResult = IdleResult
    /\ shFormatted = EmptyText

(***************************************************************************)
(* AutomBot.run_conversation                                               *)
(***************************************************************************)
\* The prompt list is empty or holds MaxPrompts prompts: a run over fewer
\* prompts is a prefix of the run over MaxPrompts of them.
Init ==
    /\ prompts \in {[i \in 1..n |-> PromptText(i)] : n \in {0, MaxPrompts}}
    /\ max_turns \in 0..MaxTurns
    /\ conversation = <<>>
    /\ pc = "for_prompts"
    /\ promptIdx = 0
    /\ turn = 0
    /\ response = <<>>
    /\ itemIdx = 1
    /\ tool_messages = <<>>
    /\ printed_output = FALSE
    /\ error = "none"
    /\ printed = <<>>
    /\ calls = 0
    /\ shellRuns = 0
    /\ modelInput = <<>>
    /\ mark = 0
    /\ budget = MaxModelItems
    /\ toolEveryCall = TRUE
    /\ printMark = 0
    /\ shellLog = <<>>
    /\ ShellIdle

\* for user_input in prompts: conversation.append(user message)
NextPrompt ==
    /\ pc = "for_prompts"
    /\ promptIdx < Len(prompts)
    /\ promptIdx' = promptIdx + 1
    /\ conversation' = WithUserMessage(conversation, NextUserInput(prompts, promptIdx))
    /\ turn' = 0
    /\ calls' = 0
    /\ shellRuns' = 0
    /\ pc' = "for_turns"
    /\ UNCHANGED <<prompts, max_turns, response, itemIdx, tool_messages,
                   printed_output, error, printed, modelInput, mark, budget>>
    /\ toolEveryCall' = TRUE
    /\ UNCHANGED <<printMark, shellLog>>
    /\ UNCHANGED shellVars

\* the prompts are exhausted: run_conversation returns
Return ==
    /\ pc = "for_prompts"
    /\ promptIdx = Len(prompts)
    /\ pc' = "returned"
    /\ UNCHANGED <<prompts, max_turns, conversation, promptIdx, turn, response,
                   itemIdx, tool_messages, printed_output, error, printed, calls,
                   shellRuns, modelInput, mark, budget, toolEveryCall, printMark,
                   shellLog>>
    /\ UNCHANGED shellVars

\* response = self.client.responses.create(...); tool_messages = []; printed_output = False
CallModel ==
    /\ pc = "for_turns"
    /\ MoreTurns(turn, max_turns)
    /\ \E r \in ResponsesUpTo(budget) :
        /\ response' = r
        /\ budget' = budget - Len(r)
        /\ toolEveryCall' = (toolEveryCall /\ \E k \in 1..Len(r) : IsRunShell(r[k]))
    /\ turn' = turn + 1
    /\ calls' = calls + 1
    /\ modelInput' = _build_messages(conversation)
    /\ mark' = Len(conversation)
    /\ tool_messages' = <<>>
    /\ printed_output' = FALSE
    /\ itemIdx' = 1
    /\ pc' = "scan"
    /\ printMark' = Len(printed)
    /\ shellLog' = <<>>
    /\ UNCHANGED <<prompts, max_turns, conversation, promptIdx, error, printed, shellRuns>>
    /\ UNCHANGED shellVars

\* self.client.responses.create(...) raises
CallModelFails ==
    /\ pc = "for_turns"
    /\ MoreTurns(turn, max_turns)
    /\ turn' = turn + 1
    /\ calls' = calls + 1
    /\ modelInput' = _build_messages(conversation)
    /\ mark' = Len(conversation)
    /\ error' = "RemoteAPIFailure"
    /\ pc' = AfterModelError(turn)
    /\ UNCHANGED <<prompts, max_turns, conversation, promptIdx, response, itemIdx,
                   tool_messages, printed_output, printed, shellRuns, budget>>
    /\ toolEveryCall' = FALSE
    /\ UNCHANGED <<printMark, shellLog>>
    /\ UNCHANGED shellVars

\* range(self.max_turns) is exhausted: the inner loop ends
TurnsExhausted ==
    /\ pc = "for_turns"
    /\ ~MoreTurns(turn, max_turns)
    /\ pc' = "for_prompts"
    /\ UNCHANGED <<prompts, max_turns, conversation, promptIdx, turn, response,
                   itemIdx, tool_messages, printed_output, error, printed, calls,
                   shellRuns, modelInput, mark, budget, toolEveryCall, printMark,
                   shellLog>>
    /\ UNCHANGED shellVars

\* item_type == "message"
ScanMessage ==
    /\ pc = "scan"
    /\ itemIdx <= Len(response)
    /\ ItemType(response[itemIdx]) = "message"
    /\ LET item == response[itemIdx]
           message_text == MessageText(item)
       IN /\ printed_output' = TRUE
          /\ IF message_text # EmptyText
             THEN /\ printed' = Append(printed, message_text)
                  /\ conversation' = Append(conversation,
                        TextMessage(MessageRole(item), message_text))
             ELSE UNCHANGED <<printed, conversation>>
    /\ itemIdx' = itemIdx + 1
    /\ UNCHANGED <<prompts, max_turns, pc, promptIdx, turn, response, tool_messages,
                   error, calls, shellRuns, modelInput, mark, budget, toolEveryCall, printMark,
                   shellLog>>
    /\ UNCHANGED shellVars

\* item_type == "tool_call" and the function is run_shell
ScanToolCall ==
    /\ pc = "scan"
    /\ itemIdx <= Len(response)
    /\ IsRunShell(response[itemIdx])
    /\ LET item == response[itemIdx]
       IN \E proc \in ProcsFor(Arguments(item)) :
            LET out == _handle_tool_call(CallId(item), Arguments(item), proc)
            IN /\ shellRuns' = IF out.ran THEN shellRuns + 1 ELSE shellRuns
               /\ shellLog' = IF out.ran
                              THEN Append(shellLog, CommandOf(Arguments(item)))
                              ELSE shellLog
               /\ IF out.kind = "raised"
                  THEN /\ error' = out.exception
                       /\ pc' = "raised"
                       /\ UNCHANGED <<tool_messages, conversation, itemIdx>>
                  ELSE /\ tool_messages' = Append(tool_messages, out.message)
                       /\ conversation' = Append(conversation, out.message)
                       /\ itemIdx' = itemIdx + 1
                       /\ UNCHANGED <<error, pc>>
    /\ UNCHANGED <<prompts, max_turns, promptIdx, turn, response, printed_output,
                   printed, calls, modelInput, mark, budget, toolEveryCall, printMark>>
    /\ UNCHANGED shellVars

\* any other item: neither branch of the if/elif does anything
ScanSkipped ==
    /\ pc = "scan"
    /\ itemIdx <= Len(response)
    /\ ItemType(response[itemIdx]) # "message"
    /\ ~IsRunShell(response[itemIdx])
    /\ itemIdx' = itemIdx + 1
    /\ UNCHANGED <<prompts, max_turns, conversation, pc, promptIdx, turn, response,
                   tool_messages, printed_output, error, printed, calls, shellRuns,
                   modelInput, mark, budget, toolEveryCall, printMark,
                   shellLog>>
    /\ UNCHANGED shellVars

\* if tool_messages: continue / if not printed_output: print(...) / break
EndIteration ==
    /\ pc = "scan"
    /\ itemIdx > Len(response)
    /\ IF tool_messages # <<>>
       THEN /\ pc' = "for_turns"
            /\ UNCHANGED printed
       ELSE /\ pc' = "for_prompts"
            /\ printed' = IF printed_output THEN printed ELSE Append(printed, NoResponse)
    /\ UNCHANGED <<prompts, max_turns, conversation, promptIdx, turn, response,
                   itemIdx, tool_messages, printed_output, error, calls, shellRuns,
                   modelInput, mark, budget, toolEveryCall, printMark,
                   shellLog>>
    /\ UNCHANGED shellVars

Next ==
    \/ NextPrompt
    \/ Return
    \/ CallModel
    \/ CallModelFails
    \/ TurnsExhausted
    \/ ScanMessage
    \/ ScanToolCall
    \/ ScanSkipped
    \/ EndIteration

Spec == Init /\ [][Next]_vars

(***************************************************************************)
(* The executor and the formatter on their own: one command is run and,    *)
(* when a ShellResult comes back, formatted.                               *)
(***************************************************************************)
Commands == {"echo hi", "ls -l nofile"}

\* What a process may write to a stream, before it is stripped.
RawTexts ==
    {EmptyText,
     <<Line(0, "hi"), Line(0, "")>>,
     <<Line(0, ""), Line(2, "a"), Line(0, ""), Line(4, "b"), Line(0, "")>>,
     <<Line(3, ""), Line(0, "")>>}

Procs ==
    {Proc(e, rc, out, err) :
        e \in {1, DefaultShellTimeout, DefaultShellTimeout + 1},
        rc \in {0, 1, -9},
        out \in RawTexts,
        err \in RawTexts}

LoopIdle ==
    /\ prompts = <<>>
    /\ max_turns = 0
    /\ conversation = <<>>
    /\ pc = "idle"
    /\ promptIdx = 0
    /\ turn = 0
    /\ response = <<>>
    /\ itemIdx = 1
    /\ tool_messages = <<>>
    /\ printed_output = FALSE
    /\ error = "none"
    /\ printed = <<>>
    /\ calls = 0
    /\ shellRuns = 0
    /\ modelInput = <<>>
    /\ mark = 0
    /\ budget = 0
    /\ toolEveryCall = TRUE
    /\ printMark = 0
    /\ shellLog = <<>>

InitShell ==
    /\ LoopIdle
    /\ shCommand \in Commands
    /\ shProc \in Procs
    /\ shState = "start"
    /\ shResult = IdleResult
    /\ shFormatted = EmptyText

\* ShellExecutor.run(command)
ShellRun ==
    /\ shState = "start"
    /\ shResult' = ShellExecutor_run(shCommand, shProc, DefaultShellTimeout)
    /\ shState' = IF shResult'.kind = "raised" THEN "raised" ELSE "returned"
    /\ UNCHANGED <<shCommand, shProc, shFormatted>>
    /\ UNCHANGED loopVars

\* shell_result.to_tool_message()
ShellFormat ==
    /\ shState = "returned"
    /\ shFormatted' = to_tool_message(shResult)
    /\ shState' = "formatted"
    /\ UNCHANGED <<shCommand, shProc, shResult>>
    /\ UNCHANGED loopVars

NextShell ==
    \/ ShellRun
    \/ ShellFormat

SpecShell == InitShell /\ [][NextShell]_vars

(***************************************************************************)
(* Properties.                                                             *)
(***************************************************************************)
\* A model call is about to be issued.
AtModelCall == pc = "for_turns" /\ MoreTurns(turn, max_turns)

\* The item the item loop is at.
AtItem == pc = "scan" /\ itemIdx <= Len(response)

\* The messages appended since the last model call was issued.
NewMessages == SubSeq(conversation, mark + 1, Len(conversation))
NewToolMessages == SelectSeq(NewMessages, LAMBDA m : m.role = "tool")

ArgumentsMalformed(arguments) ==
    LET payload == json_loads(arguments)
    IN ~payload.ok \/ "command" \notin DOMAIN payload.value

TimesOut(arguments) ==
    /\ ~ArgumentsMalformed(arguments)
    /\ \E proc \in ProcsFor(arguments) : proc.elapsed > DefaultShellTimeout

IsToolResult(m) == m.role = "tool" /\ m.name = "run_shell"

\* C1: while a prompt is processed, the model calls issued for it never number
\* more than max_turns.
C1_ModelCallsBounded == calls <= max_turns

C1_Witness == pc = "scan" /\ calls = max_turns /\ max_turns >= 2 /\ promptIdx >= 2

\* C2 (as stated): at every model call, each tool-call item of the preceding
\* response has exactly one tool-result message, appended since that response,
\* whose tool_call_id is the tool call's identifier.
C2_EveryToolCallAnswered ==
    AtModelCall =>
        \A k \in 1..Len(response) :
            ItemType(response[k]) = "tool_call" =>
                Cardinality({j \in 1..Len(NewToolMessages) :
                    /\ "tool_call_id" \in DOMAIN NewToolMessages[j]
                    /\ NewToolMessages[j].tool_call_id = CallId(response[k])}) = 1

\* C2 (amended): at every model call, the tool-result messages appended since
\* the preceding response are, in order, one for each tool-call item of that
\* response that names run_shell, and the message of an item with a non-empty
\* identifier carries that identifier as its tool_call_id.
C2_RunShellCallsAnswered ==
    AtModelCall =>
        LET asked == SelectSeq(response, IsRunShell)
        IN /\ Len(NewToolMessages) = Len(asked)
           /\ \A k \in 1..Len(asked) :
                /\ IsToolResult(NewToolMessages[k])
                /\ ~Falsy(CallId(asked[k])) =>
                    /\ "tool_call_id" \in DOMAIN NewToolMessages[k]
                    /\ NewToolMessages[k].tool_call_id = CallId(asked[k])

C2_Witness ==
    /\ AtModelCall
    /\ calls >= 1
    /\ Len(SelectSeq(response, IsRunShell)) = 2
    /\ \E k \in 1..Len(response) : IsRunShell(response[k]) /\ ~Falsy(CallId(response[k]))

\* C3: a run_shell tool call whose arguments do not parse or lack `command`
\* runs no shell command, appends a tool-result message to the conversation and
\* leaves run_conversation running, no exception raised.
C3_MalformedCallRecorded ==
    [][(AtItem /\ IsRunShell(response[itemIdx])
            /\ ArgumentsMalformed(Arguments(response[itemIdx])))
        => /\ shellRuns' = shellRuns
           /\ error' = "none"
           /\ pc' = "scan"
           /\ Len(conversation') = Len(conversation) + 1
           /\ IsToolResult(conversation'[Len(conversation')])]_vars

\* C4: a shell command that outlives the timeout ends as a tool-result message
\* appended to the conversation, no exception raised, the item loop going on.
C4_TimeoutRecorded ==
    [][(AtItem /\ IsRunShell(response[itemIdx])
            /\ TimesOut(Arguments(response[itemIdx])))
        => /\ error' = "none"
           /\ pc' = "scan"
           /\ Len(conversation') = Len(conversation) + 1
           /\ IsToolResult(conversation'[Len(conversation')])]_vars

\* C5: ShellExecutor.run on a command that outlives the timeout raises the
\* timeout and returns no ShellResult, hence no return code; on a command that
\* ends in time it returns a ShellResult with the command's own exit status.
C5_TimeoutIsNoResult ==
    /\ shState = "start" => shResult = IdleResult
    /\ shState # "start" =>
        IF shProc.elapsed > DefaultShellTimeout
        THEN /\ shState = "raised"
             /\ shResult.kind = "raised"
             /\ shResult.exception = "TimeoutExpired"
             /\ "returncode" \notin DOMAIN shResult
        ELSE /\ shState \in {"returned", "formatted"}
             /\ shResult.kind = "ShellResult"
             /\ shResult.command = shCommand
             /\ shResult.returncode = shProc.returncode

C5_Witness == shState = "raised" /\ shProc.elapsed > DefaultShellTimeout

\* The lines of a formatted block whose text is t.
LinesWith(block, t) == {k \in 1..Len(block) : block[k].text = t}

\* C6: a command that ends in time, with whatever exit status, makes the item
\* loop append one tool-result message showing that exit status, record it in
\* tool_messages and go on to the next item, no exception raised: the same for
\* a nonzero status as for 0.
C6_NonzeroExitIsAResult ==
    [][(AtItem /\ IsRunShell(response[itemIdx])
            /\ ~ArgumentsMalformed(Arguments(response[itemIdx]))
            /\ ~TimesOut(Arguments(response[itemIdx])))
        => /\ error' = "none"
           /\ pc' = "scan"
           /\ itemIdx' = itemIdx + 1
           /\ shellRuns' = shellRuns + 1
           /\ Len(conversation') = Len(conversation) + 1
           /\ SubSeq(conversation', 1, Len(conversation)) = conversation
           /\ LET m == conversation'[Len(conversation')]
              IN /\ IsToolResult(m)
                 /\ tool_messages' = Append(tool_messages, m)
                 /\ \E proc \in ProcsFor(Arguments(response[itemIdx])) :
                        LinesWith(m.content[1].text,
                                  "Exit code: " \o ToString(proc.returncode)) # {}]_vars

C6_Witness ==
    /\ pc = "scan"
    /\ error = "none"
    /\ tool_messages # <<>>
    /\ conversation # <<>>
    /\ conversation[Len(conversation)] = tool_messages[Len(tool_messages)]
    /\ LinesWith(conversation[Len(conversation)].content[1].text, "Exit code: 1") # {}

\* The block the formatter is to produce: four labelled fields, each label at
\* the start of its line.
ExpectedBlock(r) ==
    <<Line(0, "Command: " \o r.command),
      Line(0, "Exit code: " \o ToString(r.returncode)),
      Line(0, "Stdout:")>>
    \o (IF r.stdout = EmptyText THEN OneLine("<empty>") ELSE r.stdout)
    \o <<Line(0, "Stderr:")>>
    \o (IF r.stderr = EmptyText THEN OneLine("<empty>") ELSE r.stderr)

\* C7: for every ShellResult, to_tool_message is exactly "Command: <command>",
\* "Exit code: <returncode>", "Stdout:", the stdout or <empty>, "Stderr:", the
\* stderr or <empty>, in that order, every label at the start of its line.
C7_ExactBlock == shState = "formatted" => shFormatted = ExpectedBlock(shResult)

\* C8: when stdout is empty the line after the Stdout: label is the literal
\* <empty>, when stderr is empty the line after the Stderr: label is the literal
\* <empty>, and no blank line stands in for an empty stream.
C8_EmptyStreamPlaceholder ==
    shState = "formatted" =>
        /\ shResult.stdout = EmptyText =>
            \E k \in LinesWith(shFormatted, "Stdout:") :
                /\ k + 1 <= Len(shFormatted)
                /\ shFormatted[k + 1] = Line(0, "<empty>")
        /\ shResult.stderr = EmptyText =>
            \E k \in LinesWith(shFormatted, "Stderr:") :
                /\ k + 1 = Len(shFormatted)
                /\ shFormatted[k + 1] = Line(0, "<empty>")
        /\ (shResult.stdout = EmptyText /\ shResult.stderr = EmptyText) =>
            LinesWith(shFormatted, "") = {}

C8_Witness ==
    /\ shState = "formatted"
    /\ shResult.stdout = EmptyText
    /\ shResult.stderr = EmptyText
    /\ LinesWith(shFormatted, "<empty>") # {}

\* C9: once a run_shell tool call has been handled in an iteration and fewer
\* than max_turns model calls have been made for the prompt, the loop comes to
\* another model call for the same prompt, whose input holds the tool-result
\* messages just appended, whatever else the response held.
C9_ToolCallThenModelCall ==
    /\ [][(pc = "scan" /\ tool_messages # <<>> /\ calls < max_turns)
            => /\ pc' \in {"scan", "for_turns"}
               /\ promptIdx' = promptIdx]_vars
    /\ [][(pc = "for_turns" /\ tool_messages # <<>> /\ calls >= 1 /\ calls < max_turns)
            => /\ calls' = calls + 1
               /\ promptIdx' = promptIdx
               /\ \A k \in 1..Len(tool_messages) :
                    \E j \in 1..Len(modelInput') : modelInput'[j] = tool_messages[k]]_vars

\* C10: when every response for a prompt holds a run_shell tool call, the inner
\* loop ends after exactly max_turns model calls, no exception raised, and the
\* next prompt is taken; with max_turns = 1 and one tool call in the response,
\* one model call and one shell execution are made for the prompt.
C10_ToolCallsUntilTurnCap ==
    (toolEveryCall /\ promptIdx >= 1) =>
        /\ error = "none"
        /\ pc # "raised"
        /\ pc \in {"for_prompts", "returned"} => calls = max_turns
        /\ (pc \in {"for_prompts", "returned"} /\ max_turns = 1 /\ Len(response) = 1) =>
                (calls = 1 /\ shellRuns = 1)

\* The item loop has come to the end of the response.
AtEndOfItems == pc = "scan" /\ itemIdx > Len(response)

\* C11: an iteration that handled no tool call prints the placeholder exactly
\* when it printed no message text, and then leaves the inner loop; so it
\* leaves at least one printed line.
C11_PlaceholderIffNothingPrinted ==
    [][(AtEndOfItems /\ tool_messages = <<>>)
        => /\ pc' = "for_prompts"
           /\ (printed' = Append(printed, NoResponse)) <=> (Len(printed) = printMark)
           /\ printed' # printed => printed' = Append(printed, NoResponse)
           /\ Len(printed') > printMark]_vars

\* The role the item gives, assistant when it gives none.
RoleOf(item) == IF "role" \in DOMAIN item THEN item.role ELSE "assistant"

C13_AppendOnly ==
    [][/\ Len(conversation') >= Len(conversation)
       /\ SubSeq(conversation', 1, Len(conversation)) = conversation
       /\ turn' = turn + 1 =>
            /\ Len(modelInput') = Len(conversation) + 1
            /\ \A k \in 1..Len(conversation) : modelInput'[k + 1] = conversation[k]]_vars

C13_Witness ==
    /\ pc = "scan"
    /\ promptIdx = 2
    /\ Len(modelInput) >= 5
    /\ modelInput[2].role = "user"
    /\ modelInput[3].role = "tool"
    /\ modelInput[Len(modelInput)].role = "user"

\* C14: when a model call fails the exception leaves run_conversation: nothing
\* more happens, and the conversation is what was given to the failed call.
C14_ApiFailurePropagates ==
    /\ [](error = "RemoteAPIFailure" =>
            /\ pc = "raised"
            /\ <<TextMessage("system", SystemPrompt)>> \o conversation = modelInput)
    /\ [][error # "RemoteAPIFailure"]_vars

C14_Witness ==
    /\ error = "RemoteAPIFailure"
    /\ pc = "raised"
    /\ promptIdx < Len(prompts)
    /\ calls = 2
    /\ shellLog # <<>>

\* C15: if every model call returns and every shell command ends in time,
\* run_conversation stops only by returning after the last prompt.
C15_StopsOnlyWhenDone ==
    /\ pc = "raised" => error \in {"RemoteAPIFailure", "TimeoutExpired"}
    /\ pc = "returned" => promptIdx = Len(prompts)
    /\ pc \in {"for_prompts", "for_turns", "scan", "returned", "raised"}

\* The commands of the run_shell items whose arguments carry one, in order.
ValidCommands(items) ==
    LET asked == SelectSeq(items,
                    LAMBDA it : IsRunShell(it) /\ ~ArgumentsMalformed(Arguments(it)))
    IN [k \in 1..Len(asked) |-> CommandOf(Arguments(asked[k]))]

\* C16: the shell runs between a response and the next model call are, in the
\* order of the items, one for each run_shell item with a valid command: of
\* the items passed while the response is scanned, of all of them afterwards.
C16_OneRunPerValidCall ==
    /\ pc = "scan" => shellLog = ValidCommands(SubSeq(response, 1, itemIdx - 1))
    /\ pc # "scan" => shellLog = ValidCommands(response)

UserMessages(messages) == SelectSeq(messages, LAMBDA m : m.role = "user")

\* C17: the user messages of the conversation are the prompts taken so far, in
\* order, one each, and a model call for a prompt is given exactly those.
C17_PromptsInOrder ==
    /\ promptIdx <= Len(prompts)
    /\ UserMessages(conversation)
        = [i \in 1..promptIdx |->
            [role |-> "user", content |-> <<[type |-> "text", text |-> prompts[i]]>>]]
    /\ calls >= 1 => UserMessages(modelInput) = UserMessages(conversation)

C17_Witness == promptIdx = 2 /\ calls >= 1 /\ pc = "scan"

\* C18: the input of a model call is the system message followed by the
\* conversation as it was; the system message is nowhere else, in particular
\* not in the conversation.
C18_SystemMessageFirst ==
    /\ \A k \in 1..Len(conversation) : conversation[k].role # "system"
    /\ modelInput # <<>> =>
        /\ modelInput[1] = [role |-> "system",
                            content |-> <<[type |-> "text", text |-> SystemPrompt]>>]
        /\ Len(modelInput) = mark + 1
        /\ \A k \in 1..mark : modelInput[k + 1] = conversation[k]
        /\ \A k \in 2..Len(modelInput) : modelInput[k].role # "system"

C18_Witness == pc = "scan" /\ Len(modelInput) >= 3 /\ calls = 2

\* An item that is neither a plain message nor a tool call naming run_shell.
IsOtherItem(item) ==
    /\ ~("type" \in DOMAIN item /\ item.type = "message")
    /\ ~(/\ "type" \in DOMAIN item /\ item.type = "tool_call"
         /\ "function" \in DOMAIN item
         /\ "name" \in DOMAIN item.function
         /\ item.function.name = "run_shell")

\* C19: an item that is neither a plain message nor a run_shell tool call is
\* passed over with no effect, and a response of such items alone ends the
\* prompt's inner loop with the placeholder printed.
C19_OtherItemsSkipped ==
    /\ [][(AtItem /\ IsOtherItem(response[itemIdx]))
            => /\ itemIdx' = itemIdx + 1
               /\ UNCHANGED <<conversation, shellRuns, shellLog, tool_messages,
                              printed, printed_output, pc, error>>]_vars
    /\ [][(AtEndOfItems /\ response # <<>>
                /\ \A k \in 1..Len(response) : IsOtherItem(response[k]))
            => /\ printed' = Append(printed, NoResponse)
               /\ pc' = "for_prompts"
               /\ conversation' = conversation]_vars

C19_Witness ==
    /\ pc = "for_prompts"
    /\ Len(response) = 3
    /\ response[1] = CallOther
    /\ response[2] = CallNoFunction
    /\ response[3] = Unknown
    /\ printed # <<>>
    /\ printed[Len(printed)] = NoResponse

\* The tool call's identifier: its id, else its tool_call_id, else none.
IdentifierOf(item) ==
    IF "id" \in DOMAIN item /\ item.id \notin {"", None} THEN item.id
    ELSE IF "tool_call_id" \in DOMAIN item /\ item.tool_call_id # None
    THEN item.tool_call_id
    ELSE ""

\* C20: every tool-result message has role tool and name run_shell, and the
\* message of a tool call carries tool_call_id, equal to the call's identifier,
\* exactly when that identifier is not empty.
C20_ToolCallIdIffIdentifier ==
    /\ \A k \in 1..Len(conversation) :
            (conversation[k].role = "tool" \/ "tool_call_id" \in DOMAIN conversation[k])
                => /\ conversation[k].role = "tool"
                   /\ "name" \in DOMAIN conversation[k]
                   /\ conversation[k].name = "run_shell"
    /\ LET asked == SelectSeq(response, LAMBDA it : ~IsOtherItem(it) /\ ItemType(it) # "message")
       IN /\ Len(NewToolMessages) <= Len(asked)
          /\ \A k \in 1..Len(NewToolMessages) :
                /\ "tool_call_id" \in DOMAIN NewToolMessages[k] <=> IdentifierOf(asked[k]) # ""
                /\ IdentifierOf(asked[k]) # "" =>
                        NewToolMessages[k].tool_call_id = IdentifierOf(asked[k])

C20_Witness ==
    /\ pc = "scan"
    /\ itemIdx = 3
    /\ response[1] = CallFalse
    /\ response[2] = CallByToolCallId
    /\ Len(NewToolMessages) = 2
    /\ "tool_call_id" \notin DOMAIN NewToolMessages[1]
    /\ NewToolMessages[2].tool_call_id = "call_7"

====
